---- MODULE Spec2Model ----
(***************************************************************************)
(* Model of the conversation store (src/store/useChatStore.ts), of the    *)
(* chat controller ChatContainer.handleSendMessage, of its caller          *)
(* MessageInput.handleSend and of the API client's response interceptor.   *)
(* Further sections model retryRequest, the dashboards (HealthPage,        *)
(* PerformancePage), ProtectedRoute and the App's hash navigation.          *)
(*                                                                         *)
(* JavaScript runs one task at a time: a handler runs from its entry to    *)
(* its first await (or its end) without any other handler running in       *)
(* between. The variable cur names the exchange whose synchronous segment  *)
(* is running; user events, timers and request completions are taken only  *)
(* when cur = NoExchange. Inside a segment each store operation is one     *)
(* step, so that the store states other subscribers see are all states of  *)
(* the model.                                                              *)
(***************************************************************************)
EXTENDS Integers, Sequences, FiniteSets, TLC

VARIABLES
    messages,            \* store: Message[]
    sessionId,           \* store: string (uuid or backend-issued id)
    userPreferences,     \* store: UserPreferences
    isLoading,           \* store: boolean
    streamingMessageId,  \* store: string | null
    storage,             \* localStorage entry 'vantage-chat-storage'
    ex,                  \* the handleSendMessage calls made so far
    nEx,                 \* number of handleSendMessage calls made so far
    cur,                 \* exchange whose synchronous segment is running
    nextSid,             \* uuidv4() stream for session ids
    now,                 \* Date.now()
    emptySendSeen,       \* history: handleSend was invoked with a blank text
    lastCall,            \* history: the last call of a store operation by a test
    retry,               \* the running call of retryRequest
    dash,                \* the mounted dashboard page (HealthPage or PerformancePage)
    route,               \* a rendering of ProtectedRoute: its inputs and what it returned
    nav                  \* window.location.hash, App.activeSection and the Layout's state

vars == <<messages, sessionId, userPreferences, isLoading, streamingMessageId,
          storage, ex, nEx, cur, nextSid, now, emptySendSeen, lastCall, retry, dash, route, nav>>

store == <<messages, sessionId, userPreferences, isLoading, streamingMessageId>>

----------------------------------------------------------------------------
(* Bounds of the model *)

MaxExchanges == 2
MaxResets == 1
MaxTime == 1
MaxMessages == 2        \* messages a test adds to the store
MaxTestResets == 2      \* resetSession calls of a test
MaxRetriesArg == 4      \* largest maxRetries retryRequest is called with

----------------------------------------------------------------------------
(* Values *)

NoId == 0          \* streamingMessageId: null
NoExchange == 0

\* A text is a sequence of characters; " " is the only whitespace used.
InputTexts == { <<>>, <<" ">>, <<" ", "a", " ">> }

\* String.prototype.trim
RECURSIVE TrimLeft(_)
TrimLeft(s) == IF s = <<>> THEN <<>>
               ELSE IF Head(s) = " " THEN TrimLeft(Tail(s)) ELSE s

RECURSIVE TrimRight(_)
TrimRight(s) == IF s = <<>> THEN <<>>
                ELSE IF s[Len(s)] = " " THEN TrimRight(SubSeq(s, 1, Len(s) - 1))
                ELSE s

Trim(s) == TrimRight(TrimLeft(s))

\* { ...a, ...b }: the keys of both, b's values winning
Spread(a, b) == b @@ a

Has(m, k) == k \in DOMAIN m

IsStreaming(m) == Has(m, "isStreaming") /\ m.isStreaming = TRUE

----------------------------------------------------------------------------
(* The store: src/store/useChatStore.ts *)

DefaultPreferences ==
    [theme |-> "system", enableProfiling |-> FALSE, userId |-> "default_user"]

\* addMessage, lines 56-60: { ...message, id: message.id ?? uuidv4(), timestamp }
NewMessage(message, uuid, t) ==
    Spread(message,
           [id |-> IF Has(message, "id") THEN message.id ELSE uuid,
            timestamp |-> t])

\* Faulty variant of addMessage: the new message is put first.
AddMessage_Prepends(msgs, message, uuid, t) == <<NewMessage(message, uuid, t)>> \o msgs

\* addMessage, lines 61-66
AddMessage(msgs, message, uuid, t) == Append(msgs, NewMessage(message, uuid, t))

\* Faulty variant of updateMessage: the id test is dropped and every message
\* is patched.
UpdateMessage_AnyId(msgs, id, updates) ==
    [i \in 1..Len(msgs) |-> Spread(msgs[i], updates)]

\* Faulty variant of updateMessage: the spread is the other way round and
\* the message's own values win over the patch.
UpdateMessage_OldWins(msgs, id, updates) ==
    [i \in 1..Len(msgs) |->
        IF msgs[i].id = id THEN Spread(updates, msgs[i]) ELSE msgs[i]]

\* updateMessage, lines 70-75
UpdateMessage(msgs, id, updates) ==
    [i \in 1..Len(msgs) |->
        IF msgs[i].id = id THEN Spread(msgs[i], updates) ELSE msgs[i]]

\* Faulty variant of updateUserPreferences: the preferences are replaced.
MergePreferences_Replaces(prefs, preferences) == preferences

\* updateUserPreferences, lines 86-92
MergePreferences(prefs, preferences) == Spread(prefs, preferences)

\* persist option partialize, lines 107-111
Partialize(msgs, sid, prefs) ==
    [messages |-> msgs, sessionId |-> sid, userPreferences |-> prefs]

\* Faulty variant of the middleware: nothing is written.
Persisted_NotWritten == storage' = storage

\* The persist middleware writes the partialized state after every set().
Persisted == storage' = Partialize(messages', sessionId', userPreferences')

\* The preference update the interface is driven with: profiling switched
\* on and the user id cleared (an unset userId)
PreferencePatches == { [enableProfiling |-> TRUE, userId |-> ""] }

\* JSON.stringify of an object: its own keys, each with its value. A key
\* whose value is undefined is written as an absent key throughout, which
\* is how JSON.stringify leaves it.
RECURSIVE Entries(_, _)
Entries(o, keys) ==
    IF keys = {} THEN <<>>
    ELSE LET k == CHOOSE key \in keys : TRUE
         IN  << <<k, o[k]>> >> \o Entries(o, keys \ {k})

StringifyObject(o) == Entries(o, DOMAIN o)

\* JSON.parse of an object
ParseObject(entries) ==
    [k \in { entries[i][1] : i \in 1..Len(entries) } |->
        entries[CHOOSE i \in 1..Len(entries) : entries[i][1] = k][2]]

\* The text of the localStorage entry for a persisted state, and back
Stringify(snapshot) ==
    [messages |-> [i \in 1..Len(snapshot.messages) |->
                      StringifyObject(snapshot.messages[i])],
     sessionId |-> snapshot.sessionId,
     userPreferences |-> StringifyObject(snapshot.userPreferences)]

Parse(text) ==
    [messages |-> [i \in 1..Len(text.messages) |-> ParseObject(text.messages[i])],
     sessionId |-> text.sessionId,
     userPreferences |-> ParseObject(text.userPreferences)]

----------------------------------------------------------------------------
(* The API client: response interceptor, error branch *)

DefaultErrorMessage == "An unexpected error occurred"

\* validationErrors.map(err => `${err.loc.join('.')}: ${err.msg}`).join(', ')
RECURSIVE Join(_, _)
Join(parts, sep) ==
    IF parts = <<>> THEN ""
    ELSE IF Len(parts) = 1 THEN parts[1]
    ELSE parts[1] \o sep \o Join(Tail(parts), sep)

ValidationText(detail) ==
    Join([i \in 1..Len(detail) |-> Join(detail[i].loc, ".") \o ": " \o detail[i].msg],
         ", ")

\* a || b for strings: the first non-empty one
OrElse(a, b) == IF a # "" THEN a ELSE b

\* The failures axios can report. status = 0: no response was received.
\* detailIsArray tells whether data.detail is an array (detailList) or not
\* (detail, "" when absent); message is data.message ("" when absent).
NoData == [detailIsArray |-> FALSE, detailList |-> <<>>, detail |-> "", message |-> ""]

Failures ==
    { [status |-> 422, data |-> [NoData EXCEPT !.detailIsArray = TRUE],
       request |-> TRUE, code |-> ""],
      [status |-> 422,
       data |-> [NoData EXCEPT !.detailIsArray = TRUE,
                               !.detailList = << [loc |-> <<"body", "message">>,
                                                  msg |-> "field required"] >>],
       request |-> TRUE, code |-> ""],
      [status |-> 0, data |-> NoData, request |-> TRUE, code |-> "ECONNABORTED"] }

InterceptorMessage(error) ==
    IF error.status # 0 THEN
        CASE error.status = 400 -> "Bad request. Please check your input."
          [] error.status = 401 -> "Unauthorized. Please login again."
          [] error.status = 403 -> "You do not have permission to perform this action."
          [] error.status = 404 -> "The requested resource was not found."
          [] error.status = 422 ->
                IF error.data.detailIsArray
                THEN ValidationText(error.data.detailList)
                ELSE "Validation error. Please check your input."
          [] error.status = 500 -> "Internal server error. Please try again later."
          [] error.status \in {502, 503, 504} ->
                "Service temporarily unavailable. Please try again later."
          [] OTHER -> OrElse(error.data.detail,
                             OrElse(error.data.message, DefaultErrorMessage))
    ELSE IF error.request THEN
        IF error.code = "ECONNABORTED"
        THEN "Request timeout. Please check your connection and try again."
        ELSE "Unable to connect to the server. Please check your internet connection."
    ELSE DefaultErrorMessage

\* new ApiError(errorMessage, ...): an Error whose message is errorMessage
ApiError(error) == [isError |-> TRUE, message |-> InterceptorMessage(error)]

\* What postChat can reject with: the interceptor's ApiError, or, for a
\* collaborator that rejects with something that is no Error, that value.
Thrown == { ApiError(f) : f \in Failures } \cup { [isError |-> FALSE, message |-> ""] }

\* handleSendMessage line 76
CatchMessage(error) == IF error.isError THEN error.message ELSE "An error occurred"

----------------------------------------------------------------------------
(* The exchanges: one record per call of ChatContainer.handleSendMessage *)

Exchanges == 1..MaxExchanges

BackendSessionIds == { -1 }

\* The ChatResponse bodies the backend may answer a request with.
Responses(sent) ==
    { [response |-> <<"h", "i">>, session_id |-> s, processing_time |-> p,
       tools_used |-> <<"search">>] :
         s \in {sent} \cup BackendSessionIds, p \in {0, 5} }

NoResponse ==
    [response |-> <<>>, session_id |-> 0, processing_time |-> 0, tools_used |-> <<>>]

NoThrown == [isError |-> FALSE, message |-> ""]

NoRequest ==
    [message |-> <<>>, session_id |-> 0, user_id |-> "", enable_profiling |-> FALSE]

\* pc: where the call stands. The closure holds what the handler captured
\* from the render it was created in (useCallback dependencies, line 82).
NotStarted ==
    [pc |-> "idle", content |-> <<>>,
     closure |-> [sessionId |-> 0, userPreferences |-> DefaultPreferences],
     agentMessageId |-> NoId, request |-> NoRequest, requests |-> 0,
     outcome |-> "none", response |-> NoResponse, error |-> NoThrown,
     startTime |-> 0, endTime |-> 0, patches |-> 0, sidCalls |-> 0,
     disturbed |-> FALSE]

\* A call that has returned ("done"), or whose page was reloaded while it
\* waited ("lost"): its locals are gone. What is kept of it is how it ended,
\* that it issued one request, and that it patched its placeholder once if
\* it returned.
Ended(pc, outcome) ==
    [NotStarted EXCEPT !.pc = pc, !.outcome = outcome, !.requests = 1,
                       !.patches = IF pc = "done" THEN 1 ELSE 0]

InFlight(e) == ex[e].pc \notin {"idle", "done", "lost"}

\* uuidv4() for a message id: an id that no message, no running call and
\* no store field holds. Which of the unused values it is makes no
\* difference to any later step, so the least one is taken.
UsedIds ==
    { messages[i].id : i \in 1..Len(messages) }
        \cup { ex[e].agentMessageId : e \in Exchanges }
        \cup { streamingMessageId }
        \cup { storage.messages[i].id : i \in 1..Len(storage.messages) }

FreshId ==
    CHOOSE n \in 1..(Cardinality(UsedIds) + 1) :
        /\ n \notin UsedIds
        /\ \A m \in 1..(n - 1) : m \in UsedIds

\* a || b for numbers: a unless it is 0
OrElseNum(a, b) == IF a # 0 THEN a ELSE b

\* Every exchange that is under way sees the session id being replaced.
Disturb(others) ==
    [e \in Exchanges |->
        IF e \in others /\ ex[e].pc \notin {"idle", "done", "lost"}
        THEN [ex[e] EXCEPT !.disturbed = TRUE] ELSE ex[e]]

\* No store operation has been called by a test yet. returned holds the
\* message addMessage returned (none: the empty sequence), id the id
\* addMessage or updateMessage was called with, before the sessionId before
\* a resetSession.
NoCall == [op |-> "none", id |-> NoId, returned |-> <<>>, before |-> 0]

\* An error a request passed to retryRequest can reject with. isApiError
\* and status are what line 657 tests (status 0: undefined); attempt tells
\* the errors of different attempts apart.
NoError == [isApiError |-> FALSE, status |-> 0, attempt |-> 0]

\* retryRequest has not been called.
NotRetrying ==
    [pc |-> "idle", maxRetries |-> 0, initialDelay |-> 0, i |-> 0, calls |-> 0,
     lastError |-> NoError, delay |-> 0, result |-> 0, thrown |-> NoError]

\* No dashboard page has been mounted. Once one is: page names it; loading,
\* error, autoRefresh and refreshInterval are its React state (error: the
\* message is set, FALSE for null); data is healthData / performanceData and
\* lastUpdate the time of it, both written as the number of the fetch whose
\* response they come from (0: null); p6Status likewise; services is the
\* kind of list setServices was last called with. fetches holds one entry
\* per call of the fetch function, in the order of the calls: "pending"
\* while its requests are in flight, then "ok" or "failed"; startedBy tells
\* what made each call (the mount effect, a timer, the button). timers are the
\* interval timers of the window that are active, interval the handle the
\* last run of the auto-refresh effect got from setInterval (0: none).
NotMounted ==
    [page |-> "none", mounted |-> FALSE, loading |-> FALSE, error |-> FALSE,
     data |-> 0, p6Status |-> 0, lastUpdate |-> 0, services |-> "empty",
     autoRefresh |-> FALSE, refreshInterval |-> 0,
     fetches |-> <<>>, startedBy |-> <<>>, timers |-> {}, interval |-> 0]

\* useAuth() without a user, and a roles property that was not passed
NoUser == [present |-> FALSE, hasRoles |-> FALSE, roles |-> <<>>]

NoRoles == [given |-> FALSE, list |-> <<>>]

\* ProtectedRoute has not been rendered
NotRendered ==
    [loading |-> FALSE, user |-> NoUser, fallback |-> FALSE, roles |-> NoRoles,
     rendered |-> "none"]

\* The App as mounted at a URL without a hash: handleHashChange ran once
\* (App.tsx line 87) and the Layout holds its initial state (Layout lines
\* 16-17). hash is window.location.hash without its leading '#';
\* hashchange tells that a hashchange event is queued and not yet handled.
AppMounted ==
    [hash |-> "", hashchange |-> FALSE, activeSection |-> "chat",
     layout |-> TRUE, activeLink |-> "Chat", isSidebarOpen |-> FALSE,
     innerWidth |-> 1024]

----------------------------------------------------------------------------
(* Initial state: first page load, no persisted snapshot, ChatContainer    *)
(* mounted (its mount effect adds the greeting, lines 85-92).              *)

Greeting == [role |-> "agent", content |-> <<"H", "e", "l", "l", "o">>]

Init ==
    /\ messages = AddMessage(<<>>, Greeting, 1, 0)
    /\ sessionId = 1
    /\ userPreferences = DefaultPreferences
    /\ isLoading = FALSE
    /\ streamingMessageId = NoId
    /\ storage = Partialize(messages, sessionId, userPreferences)
    /\ ex = [e \in Exchanges |-> NotStarted]
    /\ nEx = 0
    /\ cur = NoExchange
    /\ nextSid = 2
    /\ now = 0
    /\ emptySendSeen = FALSE
    /\ lastCall = NoCall
    /\ retry = NotRetrying
    /\ dash = NotMounted
    /\ route = NotRendered
    /\ nav = AppMounted

----------------------------------------------------------------------------
(* MessageInput.handleSend and ChatContainer.handleSendMessage *)

\* Faulty variant of the handleSend guard: the text is not trimmed first.
CanSend_NoTrim(message, disabled) == message # <<>> /\ ~disabled

\* MessageInput.handleSend, line 651: message.trim() && !disabled
CanSend(message, disabled) == Trim(message) # <<>> /\ ~disabled

\* handleSend, then handleSendMessage lines 26-30: addMessage(userMessage)
HandleSend(text) ==
    /\ cur = NoExchange
    /\ emptySendSeen' = (emptySendSeen \/ Trim(text) = <<>>)
    /\ IF CanSend(text, isLoading)
       THEN /\ nEx < MaxExchanges
            /\ nEx' = nEx + 1
            /\ cur' = nEx + 1
            /\ messages' = AddMessage(messages,
                                      [role |-> "user", content |-> Trim(text)],
                                      FreshId, now)
            /\ ex' = [ex EXCEPT ![nEx + 1] =
                        [@ EXCEPT !.pc = "addedUser",
                                  !.content = Trim(text),
                                  !.closure = [sessionId |-> sessionId,
                                               userPreferences |-> userPreferences]]]
            /\ UNCHANGED <<sessionId, userPreferences, isLoading, streamingMessageId>>
            /\ Persisted
       ELSE UNCHANGED <<store, storage, ex, nEx, cur>>
    /\ UNCHANGED <<nextSid, now, lastCall, retry, dash, route, nav>>

\* lines 33-41: addMessage(agentMessage), agentMessageId = its id
AddPlaceholder(e) ==
    /\ cur = e /\ ex[e].pc = "addedUser"
    /\ messages' = AddMessage(messages,
                              [role |-> "agent", content |-> <<>>, isStreaming |-> TRUE],
                              FreshId, now)
    /\ ex' = [ex EXCEPT ![e] = [@ EXCEPT !.pc = "addedAgent",
                                         !.agentMessageId = messages'[Len(messages')].id]]
    /\ UNCHANGED <<sessionId, userPreferences, isLoading, streamingMessageId>>
    /\ Persisted
    /\ UNCHANGED <<nEx, cur, nextSid, now, emptySendSeen, lastCall, retry, dash, route, nav>>

\* line 43: setStreamingMessageId(agentMessageId)
SetStreaming(e) ==
    /\ cur = e /\ ex[e].pc = "addedAgent"
    /\ streamingMessageId' = ex[e].agentMessageId
    /\ ex' = [ex EXCEPT ![e] = [@ EXCEPT !.pc = "streamingSet"]]
    /\ UNCHANGED <<messages, sessionId, userPreferences, isLoading>>
    /\ Persisted
    /\ UNCHANGED <<nEx, cur, nextSid, now, emptySendSeen, lastCall, retry, dash, route, nav>>

\* line 44: setLoading(true)
SetLoadingTrue(e) ==
    /\ cur = e /\ ex[e].pc = "streamingSet"
    /\ isLoading' = TRUE
    /\ ex' = [ex EXCEPT ![e] = [@ EXCEPT !.pc = "loadingSet"]]
    /\ UNCHANGED <<messages, sessionId, userPreferences, streamingMessageId>>
    /\ Persisted
    /\ UNCHANGED <<nEx, cur, nextSid, now, emptySendSeen, lastCall, retry, dash, route, nav>>

\* Faulty variant of the request: the handler is not created again when
\* sessionId changes and keeps the id of the first render.
BuildRequest_StaleSession(e) ==
    [message |-> ex[e].content,
     session_id |-> 1,
     user_id |-> OrElse(ex[e].closure.userPreferences.userId, "default_user"),
     enable_profiling |-> (ex[e].closure.userPreferences.enableProfiling \/ FALSE)]

\* lines 48-53
BuildRequest(e) ==
    [message |-> ex[e].content,
     session_id |-> ex[e].closure.sessionId,
     user_id |-> OrElse(ex[e].closure.userPreferences.userId, "default_user"),
     enable_profiling |-> (ex[e].closure.userPreferences.enableProfiling \/ FALSE)]

\* lines 48-57: the request is built and postChat is called once; the
\* handler then waits for it at the await and the task ends.
IssueRequest(e) ==
    /\ cur = e /\ ex[e].pc = "loadingSet"
    /\ ex' = [ex EXCEPT ![e] = [@ EXCEPT !.pc = "awaiting",
                                         !.request = BuildRequest(e),
                                         !.requests = @ + 1,
                                         !.startTime = now]]
    /\ cur' = NoExchange
    /\ UNCHANGED <<store, storage, nEx, nextSid, now, emptySendSeen, lastCall, retry, dash, route, nav>>

\* Faulty variant of the success patch: no fallback to the measured time.
SuccessPatch_NoFallback(response, startTime, endTime) ==
    [content |-> response.response,
     isStreaming |-> FALSE,
     toolsUsed |-> response.tools_used,
     processingTime |-> response.processing_time]

\* lines 61-66: the patch of a successful exchange
SuccessPatch(response, startTime, endTime) ==
    [content |-> response.response,
     isStreaming |-> FALSE,
     toolsUsed |-> response.tools_used,
     processingTime |-> OrElseNum(response.processing_time, endTime - startTime)]

\* lines 74-77: the patch of a failed exchange
ErrorPatch(error) == [isStreaming |-> FALSE, error |-> CatchMessage(error)]

\* lines 57-66: postChat resolves with response r; the handler resumes and
\* patches the placeholder
RequestSucceeds(e, r) ==
    /\ cur = NoExchange /\ ex[e].pc = "awaiting"
    /\ messages' = UpdateMessage(messages, ex[e].agentMessageId,
                                 SuccessPatch(r, ex[e].startTime, now))
    /\ ex' = [ex EXCEPT ![e] = [@ EXCEPT !.pc = "patched",
                                         !.outcome = "ok",
                                         !.response = r,
                                         !.endTime = now,
                                         !.patches = @ + 1]]
    /\ cur' = e
    /\ UNCHANGED <<sessionId, userPreferences, isLoading, streamingMessageId>>
    /\ Persisted
    /\ UNCHANGED <<nEx, nextSid, now, emptySendSeen, lastCall, retry, dash, route, nav>>

\* Faulty variant of the session test: the returned id is never adopted.
SessionChanged_Never(response, sent) == FALSE

\* line 69: response.session_id !== sessionId (the closure's)
SessionChanged(response, sent) == response.session_id # sent

\* lines 68-71: useChatStore.getState().setSessionId(response.session_id)
AdoptSessionId(e) ==
    /\ cur = e /\ ex[e].pc = "patched"
    /\ IF SessionChanged(ex[e].response, ex[e].closure.sessionId)
       THEN /\ sessionId' = ex[e].response.session_id
            /\ ex' = [Disturb(Exchanges \ {e}) EXCEPT ![e] =
                        [@ EXCEPT !.pc = "reconciled", !.sidCalls = @ + 1]]
       ELSE /\ sessionId' = sessionId
            /\ ex' = [ex EXCEPT ![e] = [@ EXCEPT !.pc = "reconciled"]]
    /\ UNCHANGED <<messages, userPreferences, isLoading, streamingMessageId>>
    /\ Persisted
    /\ UNCHANGED <<nEx, cur, nextSid, now, emptySendSeen, lastCall, retry, dash, route, nav>>

\* Faulty variant of the failure path: the request is issued once more
\* before the failure is recorded.
RequestFails_Retries(e, error) ==
    /\ cur = NoExchange /\ ex[e].pc = "awaiting"
    /\ IF ex[e].requests < 2
       THEN /\ ex' = [ex EXCEPT ![e] = [@ EXCEPT !.requests = @ + 1]]
            /\ UNCHANGED <<messages, cur>>
       ELSE /\ messages' = UpdateMessage(messages, ex[e].agentMessageId,
                                         [isStreaming |-> FALSE, error |-> error.message])
            /\ ex' = [ex EXCEPT ![e] = [@ EXCEPT !.pc = "reconciled",
                                                 !.outcome = "failed",
                                                 !.error = error,
                                                 !.endTime = now,
                                                 !.patches = @ + 1]]
            /\ cur' = e
    /\ UNCHANGED <<sessionId, userPreferences, isLoading, streamingMessageId>>
    /\ Persisted
    /\ UNCHANGED <<nEx, nextSid, now, emptySendSeen, lastCall, retry, dash, route, nav>>

\* lines 72-77: postChat rejects with error; the handler resumes in catch
RequestFails(e, error) ==
    /\ cur = NoExchange /\ ex[e].pc = "awaiting"
    /\ messages' = UpdateMessage(messages, ex[e].agentMessageId, ErrorPatch(error))
    /\ ex' = [ex EXCEPT ![e] = [@ EXCEPT !.pc = "reconciled",
                                         !.outcome = "failed",
                                         !.error = error,
                                         !.endTime = now,
                                         !.patches = @ + 1]]
    /\ cur' = e
    /\ UNCHANGED <<sessionId, userPreferences, isLoading, streamingMessageId>>
    /\ Persisted
    /\ UNCHANGED <<nEx, nextSid, now, emptySendSeen, lastCall, retry, dash, route, nav>>

\* Faulty variant of the finally block: streamingMessageId is not cleared.
ClearStreaming_Forgotten(e) ==
    /\ cur = e /\ ex[e].pc = "reconciled"
    /\ ex' = [ex EXCEPT ![e] = [@ EXCEPT !.pc = "streamingCleared"]]
    /\ UNCHANGED <<store, storage>>
    /\ UNCHANGED <<nEx, cur, nextSid, now, emptySendSeen, lastCall, retry, dash, route, nav>>

\* line 79 (finally): setStreamingMessageId(null)
ClearStreaming(e) ==
    /\ cur = e /\ ex[e].pc = "reconciled"
    /\ streamingMessageId' = NoId
    /\ ex' = [ex EXCEPT ![e] = [@ EXCEPT !.pc = "streamingCleared"]]
    /\ UNCHANGED <<messages, sessionId, userPreferences, isLoading>>
    /\ Persisted
    /\ UNCHANGED <<nEx, cur, nextSid, now, emptySendSeen, lastCall, retry, dash, route, nav>>

\* Faulty variant of the finally block: isLoading is not reset.
SetLoadingFalse_Forgotten(e) ==
    /\ cur = e /\ ex[e].pc = "streamingCleared"
    /\ ex' = [ex EXCEPT ![e] = Ended("done", ex[e].outcome)]
    /\ cur' = NoExchange
    /\ UNCHANGED <<store, storage>>
    /\ UNCHANGED <<nEx, nextSid, now, emptySendSeen, lastCall, retry, dash, route, nav>>

\* line 80 (finally): setLoading(false); the handler returns
SetLoadingFalse(e) ==
    /\ cur = e /\ ex[e].pc = "streamingCleared"
    /\ isLoading' = FALSE
    /\ ex' = [ex EXCEPT ![e] = Ended("done", ex[e].outcome)]
    /\ cur' = NoExchange
    /\ UNCHANGED <<messages, sessionId, userPreferences, streamingMessageId>>
    /\ Persisted
    /\ UNCHANGED <<nEx, nextSid, now, emptySendSeen, lastCall, retry, dash, route, nav>>

----------------------------------------------------------------------------
(* Other events *)

\* the reset button (ChatContainer lines 103-109): store.resetSession
ResetSession ==
    /\ cur = NoExchange
    /\ nextSid <= MaxResets + 1
    /\ messages' = <<>>
    /\ sessionId' = nextSid
    /\ nextSid' = nextSid + 1
    /\ isLoading' = FALSE
    /\ streamingMessageId' = NoId
    /\ ex' = Disturb(Exchanges)
    /\ UNCHANGED userPreferences
    /\ Persisted
    /\ UNCHANGED <<nEx, cur, now, emptySendSeen, lastCall, retry, dash, route, nav>>

\* Faulty variant of the preference update: it also ends the loading state.
UpdateUserPreferences_ClearsLoading(preferences) ==
    /\ cur = NoExchange
    /\ userPreferences' = MergePreferences(userPreferences, preferences)
    /\ isLoading' = FALSE
    /\ UNCHANGED <<messages, sessionId, streamingMessageId>>
    /\ Persisted
    /\ UNCHANGED <<ex, nEx, cur, nextSid, now, emptySendSeen, lastCall, retry, dash, route, nav>>

\* store.updateUserPreferences(preferences)
UpdateUserPreferences(preferences) ==
    /\ cur = NoExchange
    /\ userPreferences' = MergePreferences(userPreferences, preferences)
    /\ UNCHANGED <<messages, sessionId, isLoading, streamingMessageId>>
    /\ Persisted
    /\ UNCHANGED <<ex, nEx, cur, nextSid, now, emptySendSeen, lastCall, retry, dash, route, nav>>

\* Faulty variant of the restore: the preferences are those of the initial
\* state.
Hydrate_DefaultPreferences(snapshot) ==
    [messages |-> snapshot.messages,
     sessionId |-> snapshot.sessionId,
     userPreferences |-> DefaultPreferences,
     isLoading |-> FALSE,
     streamingMessageId |-> NoId]

\* The persisted subset is merged over the initial state (lines 45-53).
Hydrate(snapshot) ==
    [messages |-> snapshot.messages,
     sessionId |-> snapshot.sessionId,
     userPreferences |-> snapshot.userPreferences,
     isLoading |-> FALSE,
     streamingMessageId |-> NoId]

\* The page is reloaded: the running script and its pending requests are
\* gone, the store is created again from the persisted snapshot, and
\* ChatContainer mounts (greeting when there is no message, lines 85-92).
Reload ==
    /\ cur = NoExchange
    /\ LET h == Hydrate(Parse(Stringify(storage))) IN
        /\ sessionId' = h.sessionId
        /\ userPreferences' = h.userPreferences
        /\ isLoading' = h.isLoading
        /\ streamingMessageId' = h.streamingMessageId
        /\ IF Len(h.messages) = 0
           THEN messages' = AddMessage(h.messages, Greeting, FreshId, now)
           ELSE messages' = h.messages
    /\ ex' = [e \in Exchanges |->
                IF InFlight(e) THEN Ended("lost", "none") ELSE ex[e]]
    /\ Persisted
    /\ UNCHANGED <<nEx, cur, nextSid, now, emptySendSeen, lastCall, retry, dash, route, nav>>

\* Date.now() advances
Tick ==
    /\ cur = NoExchange
    /\ now < MaxTime
    /\ now' = now + 1
    /\ UNCHANGED <<store, storage, ex, nEx, cur, nextSid, emptySendSeen, lastCall, retry, dash, route, nav>>

----------------------------------------------------------------------------

Next ==
    \/ \E text \in InputTexts : HandleSend(text)
    \/ \E e \in Exchanges : AddPlaceholder(e)
    \/ \E e \in Exchanges : SetStreaming(e)
    \/ \E e \in Exchanges : SetLoadingTrue(e)
    \/ \E e \in Exchanges : IssueRequest(e)
    \/ \E e \in Exchanges : \E r \in Responses(ex[e].request.session_id) :
          RequestSucceeds(e, r)
    \/ \E e \in Exchanges : AdoptSessionId(e)
    \/ \E e \in Exchanges : \E error \in Thrown : RequestFails(e, error)
    \/ \E e \in Exchanges : ClearStreaming(e)
    \/ \E e \in Exchanges : SetLoadingFalse(e)
    \/ ResetSession
    \/ \E preferences \in PreferencePatches : UpdateUserPreferences(preferences)
    \/ Reload
    \/ Tick

Spec == Init /\ [][Next]_vars

\* The steps of one call of handleSendMessage. At most one of them is
\* enabled at a time.
ExchangeStep(e) ==
    \/ AddPlaceholder(e)
    \/ SetStreaming(e)
    \/ SetLoadingTrue(e)
    \/ IssueRequest(e)
    \/ \E r \in Responses(ex[e].request.session_id) : RequestSucceeds(e, r)
    \/ AdoptSessionId(e)
    \/ \E error \in Thrown : RequestFails(e, error)
    \/ ClearStreaming(e)
    \/ SetLoadingFalse(e)

\* Every request that was issued settles, and a running handler runs on.
Fairness == \A e \in Exchanges : WF_vars(ExchangeStep(e))

FairSpec == Init /\ [][Next]_vars /\ Fairness

----------------------------------------------------------------------------
(* Failing writes. The store's set is the one the persist middleware wraps:  *)
(* it changes the state in memory and then writes the entry with             *)
(* localStorage.setItem, which throws when the quota is exceeded. Nothing in *)
(* the store or in ChatContainer catches that, so the store operation throws *)
(* to its caller with the state in memory changed and the entry as it was.   *)
(* In handleSendMessage lines 26-44 are outside the try block, lines 46-71   *)
(* inside it, lines 72-77 are the catch block and lines 78-81 the finally    *)
(* block.                                                                    *)

\* what setItem throws
QuotaError == [isError |-> TRUE, message |-> "The quota has been exceeded."]

NotWritten == storage' = storage

\* The call has thrown out of handleSendMessage: its promise is rejected.
Aborted(e) == [ex[e] EXCEPT !.pc = "aborted"]

\* line 30: addMessage(userMessage) throws
HandleSendWriteFails(text) ==
    /\ cur = NoExchange
    /\ CanSend(text, isLoading)
    /\ nEx < MaxExchanges
    /\ nEx' = nEx + 1
    /\ messages' = AddMessage(messages, [role |-> "user", content |-> Trim(text)],
                              FreshId, now)
    /\ ex' = [ex EXCEPT ![nEx + 1] = [@ EXCEPT !.pc = "aborted",
                                               !.content = Trim(text)]]
    /\ UNCHANGED <<sessionId, userPreferences, isLoading, streamingMessageId>>
    /\ NotWritten
    /\ UNCHANGED <<cur, nextSid, now, emptySendSeen, lastCall, retry, dash, route, nav>>

\* line 40: addMessage(agentMessage) throws
AddPlaceholderWriteFails(e) ==
    /\ cur = e /\ ex[e].pc = "addedUser"
    /\ messages' = AddMessage(messages,
                              [role |-> "agent", content |-> <<>>, isStreaming |-> TRUE],
                              FreshId, now)
    /\ ex' = [ex EXCEPT ![e] = Aborted(e)]
    /\ cur' = NoExchange
    /\ UNCHANGED <<sessionId, userPreferences, isLoading, streamingMessageId>>
    /\ NotWritten
    /\ UNCHANGED <<nEx, nextSid, now, emptySendSeen, lastCall, retry, dash, route, nav>>

\* line 43: setStreamingMessageId(agentMessageId) throws
SetStreamingWriteFails(e) ==
    /\ cur = e /\ ex[e].pc = "addedAgent"
    /\ streamingMessageId' = ex[e].agentMessageId
    /\ ex' = [ex EXCEPT ![e] = Aborted(e)]
    /\ cur' = NoExchange
    /\ UNCHANGED <<messages, sessionId, userPreferences, isLoading>>
    /\ NotWritten
    /\ UNCHANGED <<nEx, nextSid, now, emptySendSeen, lastCall, retry, dash, route, nav>>

\* line 44: setLoading(true) throws
SetLoadingTrueWriteFails(e) ==
    /\ cur = e /\ ex[e].pc = "streamingSet"
    /\ isLoading' = TRUE
    /\ ex' = [ex EXCEPT ![e] = Aborted(e)]
    /\ cur' = NoExchange
    /\ UNCHANGED <<messages, sessionId, userPreferences, streamingMessageId>>
    /\ NotWritten
    /\ UNCHANGED <<nEx, nextSid, now, emptySendSeen, lastCall, retry, dash, route, nav>>

\* lines 61-66: updateMessage throws inside try; the catch block is next
RequestSucceedsWriteFails(e, r) ==
    /\ cur = NoExchange /\ ex[e].pc = "awaiting"
    /\ messages' = UpdateMessage(messages, ex[e].agentMessageId,
                                 SuccessPatch(r, ex[e].startTime, now))
    /\ ex' = [ex EXCEPT ![e] = [@ EXCEPT !.pc = "caught",
                                         !.outcome = "ok",
                                         !.response = r,
                                         !.error = QuotaError,
                                         !.endTime = now,
                                         !.patches = @ + 1]]
    /\ cur' = e
    /\ UNCHANGED <<sessionId, userPreferences, isLoading, streamingMessageId>>
    /\ NotWritten
    /\ UNCHANGED <<nEx, nextSid, now, emptySendSeen, lastCall, retry, dash, route, nav>>

\* lines 68-71: setSessionId throws inside try; the catch block is next
AdoptSessionIdWriteFails(e) ==
    /\ cur = e /\ ex[e].pc = "patched"
    /\ SessionChanged(ex[e].response, ex[e].closure.sessionId)
    /\ sessionId' = ex[e].response.session_id
    /\ ex' = [Disturb(Exchanges \ {e}) EXCEPT ![e] =
                [@ EXCEPT !.pc = "caught", !.sidCalls = @ + 1, !.error = QuotaError]]
    /\ UNCHANGED <<messages, userPreferences, isLoading, streamingMessageId>>
    /\ NotWritten
    /\ UNCHANGED <<nEx, cur, nextSid, now, emptySendSeen, lastCall, retry, dash, route, nav>>

\* lines 72-77 after a throw inside try: the placeholder is patched with
\* the message of what was thrown. wrote tells whether this write succeeds;
\* when it does not, updateMessage throws out of the catch block. The
\* finally block is next either way.
CatchWriteError(e, wrote) ==
    /\ cur = e /\ ex[e].pc = "caught"
    /\ messages' = UpdateMessage(messages, ex[e].agentMessageId, ErrorPatch(ex[e].error))
    /\ ex' = [ex EXCEPT ![e] = [@ EXCEPT !.pc = "reconciled", !.patches = @ + 1]]
    /\ UNCHANGED <<sessionId, userPreferences, isLoading, streamingMessageId>>
    /\ IF wrote THEN Persisted ELSE NotWritten
    /\ UNCHANGED <<nEx, cur, nextSid, now, emptySendSeen, lastCall, retry, dash, route, nav>>

\* lines 72-77: postChat rejects and updateMessage throws out of the catch
\* block; the finally block is next
RequestFailsWriteFails(e, error) ==
    /\ cur = NoExchange /\ ex[e].pc = "awaiting"
    /\ messages' = UpdateMessage(messages, ex[e].agentMessageId, ErrorPatch(error))
    /\ ex' = [ex EXCEPT ![e] = [@ EXCEPT !.pc = "reconciled",
                                         !.outcome = "failed",
                                         !.error = error,
                                         !.endTime = now,
                                         !.patches = @ + 1]]
    /\ cur' = e
    /\ UNCHANGED <<sessionId, userPreferences, isLoading, streamingMessageId>>
    /\ NotWritten
    /\ UNCHANGED <<nEx, nextSid, now, emptySendSeen, lastCall, retry, dash, route, nav>>

\* line 79: setStreamingMessageId(null) throws out of the finally block;
\* line 80 is not reached
ClearStreamingWriteFails(e) ==
    /\ cur = e /\ ex[e].pc = "reconciled"
    /\ streamingMessageId' = NoId
    /\ ex' = [ex EXCEPT ![e] = Aborted(e)]
    /\ cur' = NoExchange
    /\ UNCHANGED <<messages, sessionId, userPreferences, isLoading>>
    /\ NotWritten
    /\ UNCHANGED <<nEx, nextSid, now, emptySendSeen, lastCall, retry, dash, route, nav>>

\* line 80: setLoading(false) throws; it is the handler's last statement
SetLoadingFalseWriteFails(e) ==
    /\ cur = e /\ ex[e].pc = "streamingCleared"
    /\ isLoading' = FALSE
    /\ ex' = [ex EXCEPT ![e] = Ended("done", ex[e].outcome)]
    /\ cur' = NoExchange
    /\ UNCHANGED <<messages, sessionId, userPreferences, streamingMessageId>>
    /\ NotWritten
    /\ UNCHANGED <<nEx, nextSid, now, emptySendSeen, lastCall, retry, dash, route, nav>>

FailNext ==
    \/ Next
    \/ \E text \in InputTexts : HandleSendWriteFails(text)
    \/ \E e \in Exchanges : AddPlaceholderWriteFails(e)
    \/ \E e \in Exchanges : SetStreamingWriteFails(e)
    \/ \E e \in Exchanges : SetLoadingTrueWriteFails(e)
    \/ \E e \in Exchanges : \E r \in Responses(ex[e].request.session_id) :
          RequestSucceedsWriteFails(e, r)
    \/ \E e \in Exchanges : AdoptSessionIdWriteFails(e)
    \/ \E e \in Exchanges : \E wrote \in BOOLEAN : CatchWriteError(e, wrote)
    \/ \E e \in Exchanges : \E error \in Thrown : RequestFailsWriteFails(e, error)
    \/ \E e \in Exchanges : ClearStreamingWriteFails(e)
    \/ \E e \in Exchanges : SetLoadingFalseWriteFails(e)

FailSpec == Init /\ [][FailNext]_vars

----------------------------------------------------------------------------
(* The store called directly, as the tests of useChatStore call it          *)
(* (App.tsx lines 105-243): any operation, in any order, with the           *)
(* arguments of the tests.                                                   *)

\* addMessage arguments: without an id (lines 128-131) and with the id 'x'
\* (lines 213-218), written 100
TestMessages ==
    { [role |-> "user", content |-> <<"a">>],
      [id |-> 100, role |-> "agent", content |-> <<>>, isStreaming |-> TRUE] }

\* updateMessage arguments (lines 230-233)
TestUpdates == { [content |-> <<"h", "i">>, isStreaming |-> FALSE] }

\* the ids updateMessage and setStreamingMessageId are called with: those
\* of the messages, and 'x' whether a message has it or not
TestIds == { messages[i].id : i \in 1..Len(messages) } \cup { 100 }

\* the ids setStreamingMessageId is called with: null, and the id of the
\* message added last (as handleSendMessage does, lines 40-43)
StreamingIds ==
    { NoId } \cup { messages[i].id : i \in { Len(messages) } \ {0} }

\* updateUserPreferences arguments: one key, and all keys (lines 196-200)
TestPreferences ==
    { [theme |-> "dark"],
      [theme |-> "dark", enableProfiling |-> TRUE, userId |-> "test-user-123"] }

\* The store as created (lines 45-53), nothing persisted before.
StoreInit ==
    /\ messages = <<>>
    /\ sessionId = 1
    /\ userPreferences = DefaultPreferences
    /\ isLoading = FALSE
    /\ streamingMessageId = NoId
    /\ storage = Partialize(messages, sessionId, userPreferences)
    /\ ex = [e \in Exchanges |-> NotStarted]
    /\ nEx = 0
    /\ cur = NoExchange
    /\ nextSid = 2
    /\ now = 0
    /\ emptySendSeen = FALSE
    /\ lastCall = NoCall
    /\ retry = NotRetrying
    /\ dash = NotMounted
    /\ route = NotRendered
    /\ nav = AppMounted

\* what no store operation touches
Outside == <<ex, nEx, cur, now, emptySendSeen, retry, dash, route, nav>>

\* addMessage(message), lines 55-68
CallAddMessage(message) ==
    /\ Len(messages) < MaxMessages
    /\ LET newMessage == NewMessage(message, FreshId, now) IN
        /\ messages' = AddMessage(messages, message, FreshId, now)
        /\ lastCall' = [NoCall EXCEPT !.op = "addMessage",
                                      !.id = IF Has(message, "id") THEN message.id ELSE NoId,
                                      !.returned = <<newMessage>>]
    /\ UNCHANGED <<sessionId, userPreferences, isLoading, streamingMessageId>>
    /\ Persisted
    /\ UNCHANGED <<Outside, nextSid>>

\* updateMessage(id, updates), lines 70-75
CallUpdateMessage(id, updates) ==
    /\ messages' = UpdateMessage(messages, id, updates)
    /\ lastCall' = [NoCall EXCEPT !.op = "updateMessage", !.id = id]
    /\ UNCHANGED <<sessionId, userPreferences, isLoading, streamingMessageId>>
    /\ Persisted
    /\ UNCHANGED <<Outside, nextSid>>

\* setStreamingMessageId(id), lines 77-78
CallSetStreamingMessageId(id) ==
    /\ streamingMessageId' = id
    /\ lastCall' = [NoCall EXCEPT !.op = "setStreamingMessageId"]
    /\ UNCHANGED <<messages, sessionId, userPreferences, isLoading>>
    /\ Persisted
    /\ UNCHANGED <<Outside, nextSid>>

\* setLoading(loading), lines 80-81
CallSetLoading(loading) ==
    /\ isLoading' = loading
    /\ lastCall' = [NoCall EXCEPT !.op = "setLoading"]
    /\ UNCHANGED <<messages, sessionId, userPreferences, streamingMessageId>>
    /\ Persisted
    /\ UNCHANGED <<Outside, nextSid>>

\* setSessionId(id), lines 83-84
CallSetSessionId(id) ==
    /\ sessionId' = id
    /\ lastCall' = [NoCall EXCEPT !.op = "setSessionId"]
    /\ UNCHANGED <<messages, userPreferences, isLoading, streamingMessageId>>
    /\ Persisted
    /\ UNCHANGED <<Outside, nextSid>>

\* updateUserPreferences(preferences), lines 86-92
CallUpdateUserPreferences(preferences) ==
    /\ userPreferences' = MergePreferences(userPreferences, preferences)
    /\ lastCall' = [NoCall EXCEPT !.op = "updateUserPreferences"]
    /\ UNCHANGED <<messages, sessionId, isLoading, streamingMessageId>>
    /\ Persisted
    /\ UNCHANGED <<Outside, nextSid>>

\* clearMessages(), lines 94-95
CallClearMessages ==
    /\ messages' = <<>>
    /\ lastCall' = [NoCall EXCEPT !.op = "clearMessages"]
    /\ UNCHANGED <<sessionId, userPreferences, isLoading, streamingMessageId>>
    /\ Persisted
    /\ UNCHANGED <<Outside, nextSid>>

\* Faulty variant of resetSession: no new session id is generated.
CallResetSession_SameSession ==
    /\ nextSid <= MaxTestResets + 1
    /\ messages' = <<>>
    /\ sessionId' = sessionId
    /\ nextSid' = nextSid + 1
    /\ isLoading' = FALSE
    /\ streamingMessageId' = NoId
    /\ lastCall' = [NoCall EXCEPT !.op = "resetSession", !.before = sessionId]
    /\ UNCHANGED userPreferences
    /\ Persisted
    /\ UNCHANGED Outside

\* resetSession(), lines 97-103; generateSessionId() gives an id never
\* given before
CallResetSession ==
    /\ nextSid <= MaxTestResets + 1
    /\ messages' = <<>>
    /\ sessionId' = nextSid
    /\ nextSid' = nextSid + 1
    /\ isLoading' = FALSE
    /\ streamingMessageId' = NoId
    /\ lastCall' = [NoCall EXCEPT !.op = "resetSession", !.before = sessionId]
    /\ UNCHANGED userPreferences
    /\ Persisted
    /\ UNCHANGED Outside

\* The store is created again and restored from the entry the middleware
\* wrote: the persisted fields over the initial state of lines 45-53.
Rehydrate ==
    /\ LET h == Hydrate(Parse(Stringify(storage))) IN
        /\ messages' = h.messages
        /\ sessionId' = h.sessionId
        /\ userPreferences' = h.userPreferences
        /\ isLoading' = h.isLoading
        /\ streamingMessageId' = h.streamingMessageId
    /\ lastCall' = [NoCall EXCEPT !.op = "rehydrate"]
    /\ Persisted
    /\ UNCHANGED <<Outside, nextSid>>

StoreNext ==
    \/ \E message \in TestMessages : CallAddMessage(message)
    \/ \E id \in TestIds : \E updates \in TestUpdates : CallUpdateMessage(id, updates)
    \/ \E id \in StreamingIds : CallSetStreamingMessageId(id)
    \/ \E loading \in BOOLEAN : CallSetLoading(loading)
    \/ \E id \in BackendSessionIds : CallSetSessionId(id)
    \/ \E preferences \in TestPreferences : CallUpdateUserPreferences(preferences)
    \/ CallClearMessages
    \/ CallResetSession
    \/ Rehydrate

StoreSpec == StoreInit /\ [][StoreNext]_vars

----------------------------------------------------------------------------
(* retryRequest(request, maxRetries, initialDelay),                          *)
(* validate-health-dashboard.js lines 643-670                                *)

\* initialDelay: none, and the default (line 646)
InitialDelays == { 0, 1000 }

\* What request() can reject with: an ApiError of a server error, of a
\* client error, of a failure without a response (status undefined, written
\* 0), and an error that is no ApiError.
RetryErrors ==
    { [isApiError |-> TRUE, status |-> 500],
      [isApiError |-> TRUE, status |-> 404],
      [isApiError |-> TRUE, status |-> 0],
      [isApiError |-> FALSE, status |-> 0] }

\* what request() can resolve with
RetryValues == { 7 }

RECURSIVE Pow2(_)
Pow2(n) == IF n = 0 THEN 1 ELSE 2 * Pow2(n - 1)

\* Faulty variant of the client error test: the upper limit is missing and
\* server errors are not retried either.
IsClientError_NoUpperLimit(error) ==
    error.isApiError /\ error.status # 0 /\ error.status >= 400

\* line 657: error instanceof ApiError && error.status && 400 <= status < 500
IsClientError(error) ==
    error.isApiError /\ error.status # 0 /\ error.status >= 400 /\ error.status < 500

\* lines 650-652 and 669: the loop test; request() is invoked when it holds,
\* and lastError is thrown when it does not
EnterIteration(r) ==
    IF r.i < r.maxRetries
    THEN [r EXCEPT !.pc = "calling", !.calls = @ + 1]
    ELSE [r EXCEPT !.pc = "rejected", !.thrown = r.lastError]

Rest == <<store, storage, ex, nEx, cur, nextSid, now, emptySendSeen, lastCall,
          dash, route, nav>>

\* retryRequest is called: lines 648-652
RetryStart(maxRetries, initialDelay) ==
    /\ retry.pc \in {"idle", "resolved", "rejected"}
    /\ retry' = EnterIteration([NotRetrying EXCEPT !.maxRetries = maxRetries,
                                                   !.initialDelay = initialDelay])
    /\ UNCHANGED Rest

\* line 652: request() resolves and its value is returned
AttemptSucceeds(value) ==
    /\ retry.pc = "calling"
    /\ retry' = [retry EXCEPT !.pc = "resolved", !.result = value]
    /\ UNCHANGED Rest

\* lines 653-665: request() rejects
AttemptFails(error) ==
    /\ retry.pc = "calling"
    /\ LET lastError == [isApiError |-> error.isApiError, status |-> error.status,
                         attempt |-> retry.calls]
           r == [retry EXCEPT !.lastError = lastError]
       IN  retry' =
             IF IsClientError(error)
             THEN [r EXCEPT !.pc = "rejected", !.thrown = lastError]
             ELSE IF r.i < r.maxRetries - 1
             THEN [r EXCEPT !.pc = "sleeping",
                            !.delay = r.initialDelay * Pow2(r.i)]
             ELSE EnterIteration([r EXCEPT !.i = @ + 1])
    /\ UNCHANGED Rest

\* lines 664 and 650: the timer fires and the loop goes on
TimerFires ==
    /\ retry.pc = "sleeping"
    /\ retry' = EnterIteration([retry EXCEPT !.i = @ + 1])
    /\ UNCHANGED Rest

RetryNext ==
    \/ \E maxRetries \in 0..MaxRetriesArg : \E initialDelay \in InitialDelays :
          RetryStart(maxRetries, initialDelay)
    \/ \E value \in RetryValues : AttemptSucceeds(value)
    \/ \E error \in RetryErrors : AttemptFails(error)
    \/ TimerFires

RetrySpec == Init /\ [][RetryNext]_vars

----------------------------------------------------------------------------
(* The dashboards: HealthPage and PerformancePage. Both hold the same       *)
(* state and run the same fetch function and the same two effects; they     *)
(* differ in what a settled fetch writes (HealthPage also keeps the list of *)
(* services and the P6 status). The handlers of a component run one at a    *)
(* time, and the effects that a state change re-runs are run by React with  *)
(* the commit of that change, before any timer or response is handled, so   *)
(* a handler and the effects it causes are one step. A response is handled  *)
(* whenever it arrives: responses of different fetches arrive in any order. *)

MaxFetches == 3         \* calls of the fetch function on one page

Pages == {"health", "performance"}

\* the options of the interval select, in seconds (HealthPage lines 217-220)
RefreshIntervals == {10, 30, 60, 300}

NotDash == <<store, storage, ex, nEx, cur, nextSid, now, emptySendSeen,
             lastCall, retry, route, nav>>

\* the fetches whose requests are in flight
Pending(d) == { i \in 1..Len(d.fetches) : d.fetches[i] = "pending" }

\* fetchHealthData / fetchPerformanceData up to the await: setLoading(true),
\* setError(null), and the requests are sent. by: what called it.
FetchData(d, by) ==
    [d EXCEPT !.loading = TRUE, !.error = FALSE,
              !.fetches = Append(@, "pending"), !.startedBy = Append(@, by)]

\* the handle setInterval returns: one that no active timer has
FreshHandle(d) ==
    CHOOSE h \in 1..(Cardinality(d.timers) + 1) :
        /\ h \notin { t.handle : t \in d.timers }
        /\ \A g \in 1..(h - 1) : g \in { t.handle : t \in d.timers }

\* the body of the auto-refresh effect: nothing when autoRefresh is off,
\* else setInterval(fetch, refreshInterval * 1000)
AutoRefreshEffect(d) ==
    IF ~d.autoRefresh
    THEN [d EXCEPT !.interval = 0]
    ELSE LET h == FreshHandle(d) IN
           [d EXCEPT !.timers = @ \cup { [handle |-> h,
                                          period |-> d.refreshInterval * 1000] },
                     !.interval = h]

\* Faulty variant of the cleanup: the timer is not cleared.
Cleanup_Missing(d) == [d EXCEPT !.interval = 0]

\* the cleanup the last run of the effect returned: clearInterval(interval),
\* or none when that run returned early
Cleanup(d) ==
    [d EXCEPT !.timers = { t \in @ : t.handle # d.interval }, !.interval = 0]

\* The page mounts: useState initial values (HealthPage lines 31-38), then
\* the initial-fetch effect and the auto-refresh effect.
Mount(page) ==
    /\ dash.page = "none"
    /\ dash' = AutoRefreshEffect(FetchData(
                  [NotMounted EXCEPT !.page = page, !.mounted = TRUE,
                                     !.loading = TRUE, !.autoRefresh = TRUE,
                                     !.refreshInterval = 30], "mount"))
    /\ UNCHANGED NotDash

\* an interval timer fires: its callback calls the fetch function
IntervalFires ==
    /\ dash.timers # {}
    /\ Len(dash.fetches) < MaxFetches
    /\ dash' = FetchData(dash, "timer")
    /\ UNCHANGED NotDash

\* the Refresh button, disabled={loading}: handleManualRefresh
HandleManualRefresh ==
    /\ dash.mounted /\ ~dash.loading
    /\ Len(dash.fetches) < MaxFetches
    /\ dash' = FetchData(dash, "button")
    /\ UNCHANGED NotDash

\* the auto-refresh checkbox: setAutoRefresh(e.target.checked); the effect
\* is cleaned up and run again
SetAutoRefresh(checked) ==
    /\ dash.mounted /\ checked # dash.autoRefresh
    /\ dash' = AutoRefreshEffect(Cleanup([dash EXCEPT !.autoRefresh = checked]))
    /\ UNCHANGED NotDash

\* the interval select, rendered while autoRefresh is on:
\* setRefreshInterval(Number(e.target.value)); the effect is cleaned up and
\* run again
SetRefreshInterval(value) ==
    /\ dash.mounted /\ dash.autoRefresh /\ value # dash.refreshInterval
    /\ dash' = AutoRefreshEffect(Cleanup([dash EXCEPT !.refreshInterval = value]))
    /\ UNCHANGED NotDash

\* The requests of fetch i succeed (HealthPage: getHealth succeeds, and
\* getP6Status succeeds or is replaced by null): the try block runs to its
\* end, then finally. State of an unmounted component is not written.
FetchSucceeds(i, p6) ==
    /\ i \in Pending(dash)
    /\ dash.page = "health" \/ p6
    /\ dash' =
         IF ~dash.mounted THEN [dash EXCEPT !.fetches[i] = "ok"]
         ELSE IF dash.page = "health"
         THEN [dash EXCEPT !.fetches[i] = "ok", !.data = i,
                           !.p6Status = IF p6 THEN i ELSE 0,
                           !.lastUpdate = i, !.services = "listed",
                           !.loading = FALSE]
         ELSE [dash EXCEPT !.fetches[i] = "ok", !.data = i, !.lastUpdate = i,
                           !.loading = FALSE]
    /\ UNCHANGED NotDash

\* Faulty variant of the failure path: the page stops refreshing.
FetchFails_StopsTimer(i) ==
    /\ i \in Pending(dash)
    /\ dash' = [dash EXCEPT !.fetches[i] = "failed", !.error = TRUE,
                            !.loading = FALSE, !.timers = {}, !.interval = 0]
    /\ UNCHANGED NotDash

\* The request of fetch i fails (HealthPage: getHealth): catch, then finally.
FetchFails(i) ==
    /\ i \in Pending(dash)
    /\ dash' =
         IF ~dash.mounted THEN [dash EXCEPT !.fetches[i] = "failed"]
         ELSE IF dash.page = "health"
         THEN [dash EXCEPT !.fetches[i] = "failed", !.error = TRUE,
                           !.services = "connectionFailed", !.loading = FALSE]
         ELSE [dash EXCEPT !.fetches[i] = "failed", !.error = TRUE,
                           !.loading = FALSE]
    /\ UNCHANGED NotDash

\* the page is left: the cleanup of the auto-refresh effect runs
Unmount ==
    /\ dash.mounted
    /\ dash' = [Cleanup(dash) EXCEPT !.mounted = FALSE]
    /\ UNCHANGED NotDash

DashNext ==
    \/ \E page \in Pages : Mount(page)
    \/ IntervalFires
    \/ HandleManualRefresh
    \/ \E checked \in BOOLEAN : SetAutoRefresh(checked)
    \/ \E value \in RefreshIntervals : SetRefreshInterval(value)
    \/ \E i \in 1..MaxFetches : \E p6 \in BOOLEAN : FetchSucceeds(i, p6)
    \/ \E i \in 1..MaxFetches : FetchFails(i)
    \/ Unmount

DashSpec == Init /\ [][DashNext]_vars

----------------------------------------------------------------------------
(* ProtectedRoute: a function of what useAuth() returns (user, loading) and  *)
(* of its properties (children, fallback, roles). A roles array is a         *)
(* sequence of role names; a user may come without a roles field.            *)

MaxRoles == 2           \* longest roles array

RoleNames == {"admin", "editor", "viewer"}

RoleLists == UNION { [1..n -> RoleNames] : n \in 0..MaxRoles }

Users ==
    {NoUser} \cup {[present |-> TRUE, hasRoles |-> FALSE, roles |-> <<>>]}
        \cup { [present |-> TRUE, hasRoles |-> TRUE, roles |-> l] : l \in RoleLists }

RolesProps == {NoRoles} \cup { [given |-> TRUE, list |-> l] : l \in RoleLists }

\* roles.includes(role)
Includes(list, x) == \E i \in 1..Len(list) : list[i] = x

\* Faulty variant of the role test: every role of the user must be one of
\* the required roles.
HasRequiredRole_Every(user, roles) ==
    user.hasRoles /\ \A i \in 1..Len(user.roles) : Includes(roles, user.roles[i])

\* line 34: user.roles?.some(role => roles.includes(role)); undefined, the
\* value for a user without roles, counts as false under the ! of line 35
HasRequiredRole(user, roles) ==
    user.hasRoles /\ \E i \in 1..Len(user.roles) : Includes(roles, user.roles[i])

\* what ProtectedRoute returns
ProtectedRoute(loading, user, fallback, roles) ==
    IF loading THEN "spinner"
    ELSE IF ~user.present
    THEN (IF fallback THEN "fallback" ELSE "LoginPrompt")
    ELSE IF roles.given /\ Len(roles.list) > 0
            /\ ~HasRequiredRole(user, roles.list)
    THEN "AccessDenied"
    ELSE "children"

\* ProtectedRoute is about to be rendered with some auth state and properties
RouteInit ==
    /\ messages = AddMessage(<<>>, Greeting, 1, 0)
    /\ sessionId = 1
    /\ userPreferences = DefaultPreferences
    /\ isLoading = FALSE
    /\ streamingMessageId = NoId
    /\ storage = Partialize(messages, sessionId, userPreferences)
    /\ ex = [e \in Exchanges |-> NotStarted]
    /\ nEx = 0
    /\ cur = NoExchange
    /\ nextSid = 2
    /\ now = 0
    /\ emptySendSeen = FALSE
    /\ lastCall = NoCall
    /\ retry = NotRetrying
    /\ dash = NotMounted
    /\ nav = AppMounted
    /\ \E loading \in BOOLEAN, user \in Users, fallback \in BOOLEAN,
          roles \in RolesProps :
         route = [loading |-> loading, user |-> user, fallback |-> fallback,
                  roles |-> roles, rendered |-> "none"]

\* React renders the component
Render ==
    /\ route.rendered = "none"
    /\ route' = [route EXCEPT !.rendered =
                    ProtectedRoute(route.loading, route.user, route.fallback,
                                   route.roles)]
    /\ UNCHANGED <<store, storage, ex, nEx, cur, nextSid, now, emptySendSeen,
                   lastCall, retry, dash, nav>>

RouteNext == Render

RouteSpec == RouteInit /\ [][RouteNext]_vars

----------------------------------------------------------------------------
(* Navigation: the App shows the section named by activeSection, which its   *)
(* hashchange listener sets from window.location.hash; the Layout highlights *)
(* the sidebar link named by its own activeLink (aria-current="page").       *)
(* A change of the hash queues a hashchange event, handled as a task of its  *)
(* own. The Layout is rendered for every section but 'login'; when it is     *)
(* mounted again its state starts anew.                                      *)

\* the sidebar links (Layout lines 24-29), href without its '#'
Navigation ==
    << [name |-> "Chat", href |-> "chat"],
       [name |-> "Performance", href |-> "performance"],
       [name |-> "Health", href |-> "health"],
       [name |-> "Docs", href |-> "docs"] >>

LinkNames == { Navigation[i].name : i \in 1..Len(Navigation) }

\* the section a sidebar link names
SectionOf(name) ==
    LET i == CHOOSE j \in 1..Len(Navigation) : Navigation[j].name = name
    IN Navigation[i].href

\* hashes the URL can carry: none, the sections renderContent knows and one
\* it does not
Hashes == {"", "chat", "performance", "health", "docs", "login", "preferences",
           "about"}

\* window.innerWidth: a phone and a desktop
Widths == {375, 1024}

NotNav == <<store, storage, ex, nEx, cur, nextSid, now, emptySendSeen,
            lastCall, retry, dash, route>>

\* the URL's hash changes (typed, a link, history): hashchange is queued
HashChanges(hash) ==
    /\ hash # nav.hash
    /\ nav' = [nav EXCEPT !.hash = hash, !.hashchange = TRUE]
    /\ UNCHANGED NotNav

\* App.handleHashChange (lines 82-85): setActiveSection(hash.slice(1) || 'chat');
\* the App renders LoginPage alone for 'login' and the Layout otherwise
HandleHashChange ==
    /\ nav.hashchange
    /\ LET section == IF nav.hash = "" THEN "chat" ELSE nav.hash
           shown == section # "login"
       IN nav' = IF shown /\ nav.layout
                 THEN [nav EXCEPT !.hashchange = FALSE, !.activeSection = section]
                 ELSE [nav EXCEPT !.hashchange = FALSE, !.activeSection = section,
                                  !.layout = shown, !.activeLink = "Chat",
                                  !.isSidebarOpen = FALSE]
    /\ UNCHANGED NotNav

\* a click on a sidebar link (Layout lines 147-150): e.preventDefault(), so
\* the hash stays, then handleNavClick(item.name), lines 81-86
HandleNavClick(name) ==
    /\ nav.layout
    /\ nav' = [nav EXCEPT !.activeLink = name,
                          !.isSidebarOpen =
                            IF nav.innerWidth < 768 THEN FALSE ELSE @]
    /\ UNCHANGED NotNav

\* the hamburger button, shown below 768px (Layout lines 94-97)
ToggleSidebar ==
    /\ nav.layout /\ nav.innerWidth < 768
    /\ nav' = [nav EXCEPT !.isSidebarOpen = ~@]
    /\ UNCHANGED NotNav

\* the window is resized
Resize(width) ==
    /\ width # nav.innerWidth
    /\ nav' = [nav EXCEPT !.innerWidth = width]
    /\ UNCHANGED NotNav

NavNext ==
    \/ \E hash \in Hashes : HashChanges(hash)
    \/ HandleHashChange
    \/ \E name \in LinkNames : HandleNavClick(name)
    \/ ToggleSidebar
    \/ \E width \in Widths : Resize(width)

NavSpec == Init /\ [][NavNext]_vars

----------------------------------------------------------------------------
(* Properties *)

StreamingPositions == { i \in 1..Len(messages) : IsStreaming(messages[i]) }

\* the positions of exchange e's placeholder in messages (none after a reset)
PlaceholderPositions(e) ==
    { i \in 1..Len(messages) :
        ex[e].agentMessageId # NoId /\ messages[i].id = ex[e].agentMessageId }

Settled(e) == ex[e].pc \in {"patched", "reconciled", "streamingCleared", "done"}

\* C1: at most one message of messages has isStreaming = true, with
\* handleSend never starting an exchange while isLoading is true and with
\* resets, preference updates and reloads at any time.
C1_AtMostOneStreaming == Cardinality(StreamingPositions) <= 1

\* C2: whenever streamingMessageId is set, it is the id of a message that is
\* in messages and has isStreaming = true, in every store state (each store
\* operation one step).
C2_StreamingIdNamesStreamingMessage ==
    streamingMessageId # NoId =>
        \E i \in 1..Len(messages) :
            messages[i].id = streamingMessageId /\ IsStreaming(messages[i])

\* C2 as amended: streamingMessageId, when set, is the id of a message that
\* is in messages; that message has isStreaming = true in every state in
\* which no handler is in the middle of its run, and inside a run except
\* between the patch of the placeholder and the clearing of
\* streamingMessageId that follows it.
C2_StreamingIdBetweenHandlerRuns ==
    streamingMessageId # NoId =>
        \E i \in 1..Len(messages) :
            /\ messages[i].id = streamingMessageId
            /\ \/ IsStreaming(messages[i])
               \/ /\ cur # NoExchange
                  /\ ex[cur].pc \in {"patched", "reconciled"}
                  /\ ex[cur].agentMessageId = streamingMessageId

C2_Witness ==
    /\ cur = NoExchange
    /\ streamingMessageId # NoId
    /\ \E e \in Exchanges : ex[e].pc = "awaiting" /\ ex[e].agentMessageId = streamingMessageId

\* C3: a message that is not streaming is never changed by a step (only
\* removed, by a reset), a message changes only from streaming to not
\* streaming, and every exchange patches its placeholder at most once, exactly
\* once when its request has settled.
C3_PatchedOnce ==
    \A e \in Exchanges :
        /\ ex[e].patches <= 1
        /\ Settled(e) => ex[e].patches = 1
        /\ ex[e].pc \in {"idle", "addedUser", "addedAgent", "streamingSet",
                         "loadingSet", "awaiting"} => ex[e].patches = 0

C3_ChangeOnlyFromStreaming ==
    \A i \in 1..Len(messages) : \A j \in 1..Len(messages') :
        (messages[i].id = messages'[j].id /\ messages[i] # messages'[j])
            => (IsStreaming(messages[i]) /\ ~IsStreaming(messages'[j]))

C4_LoadingIffInFlight ==
    /\ (\E e \in Exchanges :
           ex[e].pc \in {"loadingSet", "awaiting", "patched", "reconciled",
                         "streamingCleared"}) => isLoading
    /\ (\A e \in Exchanges : ~InFlight(e)) => ~isLoading

\* C5: every exchange whose request settles runs its completion step, and
\* when every issued request settles, isLoading = true leads to a state with
\* isLoading = false and streamingMessageId = none.
C5_ExchangeCompletes ==
    /\ isLoading ~> (~isLoading /\ streamingMessageId = NoId)
    /\ \A e \in Exchanges :
          (ex[e].pc \in {"patched", "reconciled"})
              ~> (ex[e].pc \in {"done", "lost"} /\ streamingMessageId = NoId /\ ~isLoading)

C5_Witness ==
    \E e \in Exchanges :
        ex[e].pc = "done" /\ ~isLoading /\ streamingMessageId = NoId

\* C6: after a failed backend call the placeholder has isStreaming = false,
\* a non-empty error, empty content, no toolsUsed and no processingTime,
\* whatever was thrown; and isLoading is false once the exchange is done.
C6_FailedPlaceholder ==
    \A e \in Exchanges :
        /\ \A i \in PlaceholderPositions(e) :
              ex[e].outcome = "failed" =>
                  /\ Has(messages[i], "isStreaming") /\ messages[i].isStreaming = FALSE
                  /\ Has(messages[i], "error") /\ messages[i].error # ""
                  /\ messages[i].content = <<>>
                  /\ ~Has(messages[i], "toolsUsed")
                  /\ ~Has(messages[i], "processingTime")
        /\ (ex[e].outcome = "failed" /\ ex[e].pc = "done"
              /\ \A f \in Exchanges : ~InFlight(f)) => ~isLoading

\* C7: after a successful backend call the placeholder has content = the
\* response text, isStreaming = false, toolsUsed = tools_used,
\* processingTime = processing_time and no error.
C7_CompletedPlaceholder ==
    \A e \in Exchanges : \A i \in PlaceholderPositions(e) :
        ex[e].outcome = "ok" =>
            /\ messages[i].content = ex[e].response.response
            /\ Has(messages[i], "isStreaming") /\ messages[i].isStreaming = FALSE
            /\ Has(messages[i], "toolsUsed")
            /\ messages[i].toolsUsed = ex[e].response.tools_used
            /\ Has(messages[i], "processingTime")
            /\ messages[i].processingTime = ex[e].response.processing_time
            /\ ~Has(messages[i], "error")

\* C7 as amended: as C7, with processingTime = processing_time when that is
\* not 0, and otherwise the time the controller measured around the call
\* (endTime - startTime); and the patch changes no other message.
C7_PlaceholderResult ==
    \A e \in Exchanges : \A i \in PlaceholderPositions(e) :
        ex[e].outcome = "ok" =>
            /\ messages[i].content = ex[e].response.response
            /\ Has(messages[i], "isStreaming") /\ messages[i].isStreaming = FALSE
            /\ Has(messages[i], "toolsUsed")
            /\ messages[i].toolsUsed = ex[e].response.tools_used
            /\ Has(messages[i], "processingTime")
            /\ messages[i].processingTime =
                  (IF ex[e].response.processing_time # 0
                   THEN ex[e].response.processing_time
                   ELSE ex[e].endTime - ex[e].startTime)
            /\ ~Has(messages[i], "error")

C7_OnlyThePlaceholder ==
    \A e \in Exchanges :
        (ex[e].pc = "awaiting" /\ ex'[e].pc = "patched") =>
            /\ Len(messages') = Len(messages)
            /\ \A i \in 1..Len(messages) :
                  messages[i].id # ex[e].agentMessageId => messages'[i] = messages[i]

C7_CompletedPlaceholderAmended ==
    []C7_PlaceholderResult /\ [][C7_OnlyThePlaceholder]_vars

C7_Witness ==
    \E e \in Exchanges : \E i \in PlaceholderPositions(e) :
        /\ ex[e].pc = "streamingCleared" /\ ex[e].outcome = "ok"
        /\ ex[e].response.processing_time = 0
        /\ ex[e].endTime - ex[e].startTime > 0
        /\ messages[i].processingTime = ex[e].endTime - ex[e].startTime
        /\ Len(messages) > 3

\* C8: when a successful exchange completes and the session id was not
\* replaced between its send and its completion, sessionId is the session_id
\* of the response; setSessionId was called once if that differs from the id
\* sent, and not at all otherwise.
C8_Completion(e) ==
    /\ ex[e].sidCalls = (IF ex[e].response.session_id # ex[e].request.session_id
                         THEN 1 ELSE 0)
    /\ ~ex[e].disturbed =>
          /\ sessionId' = ex[e].response.session_id
          /\ ex[e].sidCalls = 0 => sessionId' = ex[e].request.session_id

C8_SessionIdAdopted ==
    [][\A e \in Exchanges :
          (ex[e].pc # "done" /\ ex'[e].pc = "done" /\ ex[e].outcome = "ok")
              => C8_Completion(e)]_vars

C8_Witness ==
    \E e \in Exchanges :
        /\ ex[e].pc = "streamingCleared" /\ ex[e].outcome = "ok" /\ ~ex[e].disturbed
        /\ ex[e].sidCalls = 1
        /\ ex[e].response.session_id # ex[e].request.session_id
        /\ sessionId = ex[e].response.session_id

\* C9: every call of handleSendMessage issues exactly one request, also when
\* it fails; a failed placeholder is not changed afterwards; a further send
\* appends a new user message and a new placeholder with ids no message had.
C9_RequestCount ==
    \A e \in Exchanges :
        ex[e].requests = (IF ex[e].pc \in {"idle", "addedUser", "addedAgent",
                                           "streamingSet", "loadingSet"}
                          THEN 0 ELSE 1)

C9_FailedStaysFailed ==
    \A i \in 1..Len(messages) :
        (Has(messages[i], "error") /\ ~IsStreaming(messages[i])) =>
            \A j \in 1..Len(messages') :
                messages'[j].id = messages[i].id => messages'[j] = messages[i]

C9_SendAppendsNew ==
    \A e \in Exchanges :
        (ex[e].pc # ex'[e].pc /\ ex'[e].pc \in {"addedUser", "addedAgent"}) =>
            /\ Len(messages') = Len(messages) + 1
            /\ SubSeq(messages', 1, Len(messages)) = messages
            /\ \A i \in 1..Len(messages) : messages[i].id # messages'[Len(messages')].id
            /\ messages'[Len(messages')].role =
                  (IF ex'[e].pc = "addedUser" THEN "user" ELSE "agent")

C9_NoRetry ==
    []C9_RequestCount /\ [][C9_FailedStaysFailed /\ C9_SendAppendsNew]_vars

C9_Witness ==
    \E e \in Exchanges : \E f \in Exchanges :
        /\ e < f
        /\ ex[e].pc = "done" /\ ex[e].outcome = "failed" /\ ex[e].requests = 1
        /\ \E i \in 1..Len(messages) :
              Has(messages[i], "error") /\ ~IsStreaming(messages[i])
        /\ ex[f].pc = "awaiting" /\ PlaceholderPositions(f) # {}

\* C10: a send of a text that is empty after trimming changes nothing: no
\* message is appended, no exchange starts, no request is issued, and the
\* store and its persisted snapshot are as before.
C10_BlankSendIsNoOp ==
    [][emptySendSeen' # emptySendSeen
         => UNCHANGED <<store, storage, ex, nEx, cur>>]_vars

C10_Witness == emptySendSeen /\ nEx > 0

\* C11: the request a call of handleSendMessage issues carries the text of
\* the user message the call appended, the sessionId the store holds at the
\* call (also after an adoption or a reset), the store's userId, or
\* 'default_user' when that is unset, and the store's enableProfiling.
C11_RequestOfStore ==
    \A e \in Exchanges :
        (ex[e].pc = "loadingSet" /\ ex'[e].pc = "awaiting") =>
            /\ Len(messages) >= 2
            /\ messages[Len(messages) - 1].role = "user"
            /\ ex'[e].request.message = messages[Len(messages) - 1].content
            /\ ex'[e].request.session_id = sessionId
            /\ ex'[e].request.user_id =
                  (IF userPreferences.userId # "" THEN userPreferences.userId
                   ELSE "default_user")
            /\ ex'[e].request.enable_profiling = userPreferences.enableProfiling

C11_RequestCarriesStoreValues == [][C11_RequestOfStore]_vars

C11_Witness ==
    \E e \in Exchanges :
        /\ ex[e].pc = "awaiting" /\ e > 1
        /\ ex[e].request.session_id # 1
        /\ ex[e].request.message = <<"a">>
        /\ userPreferences.userId = "" /\ ex[e].request.user_id = "default_user"
        /\ ex[e].request.enable_profiling

\* C12: updateMessage(id, updates) merges updates into every message whose
\* id is id: the patched keys take the new values, its other keys keep
\* theirs; the number and order of the messages and every other message
\* are unchanged, and so is messages when no message has that id.
C12_UpdateMerges ==
    \A id \in TestIds : \A updates \in TestUpdates :
        CallUpdateMessage(id, updates) =>
            /\ Len(messages') = Len(messages)
            /\ \A i \in 1..Len(messages) :
                  IF messages[i].id = id
                  THEN /\ DOMAIN messages'[i] = DOMAIN messages[i] \cup DOMAIN updates
                       /\ \A k \in DOMAIN updates : messages'[i][k] = updates[k]
                       /\ \A k \in DOMAIN messages[i] \ DOMAIN updates :
                             messages'[i][k] = messages[i][k]
                  ELSE messages'[i] = messages[i]
            /\ (\A i \in 1..Len(messages) : messages[i].id # id) => messages' = messages
            /\ UNCHANGED <<sessionId, userPreferences, isLoading, streamingMessageId>>

C12_UpdateMessageMerges == [][C12_UpdateMerges]_vars

C12_Witness ==
    /\ lastCall.op = "updateMessage" /\ Len(messages) = 2
    /\ \E i \in 1..2 : \E j \in 1..2 :
          /\ messages[i].id = lastCall.id /\ messages[i].role = "agent"
          /\ messages[i].content = <<"h", "i">> /\ messages[i].isStreaming = FALSE
          /\ messages[j].id # lastCall.id /\ messages[j].role = "user"
          /\ messages[j].content = <<"a">> /\ ~Has(messages[j], "isStreaming")

\* C13: after any calls of addMessage, with or without an id given by the
\* caller, the ids of the messages are pairwise distinct.
C13_DistinctIds ==
    \A i \in 1..Len(messages) : \A j \in 1..Len(messages) :
        i # j => messages[i].id # messages[j].id

\* C14: addMessage appends one message at the end and leaves the messages
\* before it as they were; what it returns is the new last message, whose id
\* is the caller's when one was given and otherwise one no message had.
C14_AddAppends ==
    lastCall'.op = "addMessage" =>
        /\ Len(messages') = Len(messages) + 1
        /\ SubSeq(messages', 1, Len(messages)) = messages
        /\ lastCall'.returned = << messages'[Len(messages')] >>
        /\ IF lastCall'.id # NoId
           THEN messages'[Len(messages')].id = lastCall'.id
           ELSE \A i \in 1..Len(messages) : messages[i].id # messages'[Len(messages')].id
        /\ UNCHANGED <<sessionId, userPreferences, isLoading, streamingMessageId>>

C15_Reset ==
    (lastCall'.op = "resetSession" /\ nextSid' # nextSid) =>
        /\ messages' = <<>>
        /\ isLoading' = FALSE
        /\ streamingMessageId' = NoId
        /\ sessionId' # sessionId
        /\ lastCall.op = "resetSession" => sessionId' # lastCall.before
        /\ userPreferences' = userPreferences

C15_ResetSessionYieldsNewSession == [][C15_Reset]_vars

C15_Witness ==
    /\ lastCall.op = "resetSession" /\ lastCall.before = 2
    /\ sessionId = 3 /\ messages = <<>>
    /\ userPreferences # DefaultPreferences

\* C16: restoring the store from the entry that was persisted gives the
\* messages, sessionId and userPreferences that were persisted, with
\* isLoading false and streamingMessageId none whatever they were before.
C16_Restore ==
    lastCall'.op = "rehydrate" =>
        /\ messages' = messages /\ messages' = storage.messages
        /\ sessionId' = sessionId /\ sessionId' = storage.sessionId
        /\ userPreferences' = userPreferences
        /\ userPreferences' = storage.userPreferences
        /\ isLoading' = FALSE
        /\ streamingMessageId' = NoId

C19_Merge ==
    \A preferences \in TestPreferences :
        CallUpdateUserPreferences(preferences) =>
            /\ DOMAIN userPreferences' = DOMAIN userPreferences \cup DOMAIN preferences
            /\ \A k \in DOMAIN preferences : userPreferences'[k] = preferences[k]
            /\ \A k \in DOMAIN userPreferences \ DOMAIN preferences :
                  userPreferences'[k] = userPreferences[k]
            /\ UNCHANGED <<messages, sessionId, isLoading, streamingMessageId>>

C19_PreferencesShallowMerge == [][C19_Merge]_vars

C19_Witness ==
    /\ lastCall.op = "updateUserPreferences"
    /\ userPreferences = [theme |-> "dark", enableProfiling |-> FALSE,
                          userId |-> "default_user"]
    /\ Len(messages) > 0

\* C20: when every attempt fails with an error that is retried, request is
\* invoked maxRetries + 1 times and retryRequest then rejects with the error
\* of the last attempt; when an attempt succeeds retryRequest resolves with
\* its value and request is not invoked again.
C20_RetriesUpToMaxRetries ==
    /\ (retry.pc = "rejected" /\ ~IsClientError(retry.thrown)) =>
          /\ retry.calls = retry.maxRetries + 1
          /\ retry.thrown.attempt = retry.calls
    /\ retry.pc = "resolved" =>
          /\ retry.result \in RetryValues
          /\ retry.calls = retry.lastError.attempt + 1

\* C18: a write of the entry that fails is not fatal: the exchange during
\* which it fails still runs to its completion step, so no call of
\* handleSendMessage ends before its placeholder is patched and isLoading is
\* set back to false.
C18_WriteFailureNotFatal ==
    \A e \in Exchanges :
        /\ ex[e].pc # "aborted"
        /\ (ex[e].pc = "done" /\ \A f \in Exchanges : ~InFlight(f)) => ~isLoading

\* C21: an attempt that fails with an ApiError of status 400..499 ends
\* retryRequest at once with that error and request is not invoked again;
\* any other failure is followed by a wait and a further attempt while the
\* loop has attempts left, and by a rejection with that failure when not.
C21_AfterFailure ==
    /\ (retry.pc = "calling" /\ retry'.pc # "resolved" /\ retry' # retry) =>
          LET error == retry'.lastError IN
            /\ error.attempt = retry.calls
            /\ retry'.calls = retry.calls
            /\ IF error.isApiError /\ error.status \in 400..499
               THEN retry'.pc = "rejected" /\ retry'.thrown = error
               ELSE IF retry.i < retry.maxRetries - 1
               THEN retry'.pc = "sleeping"
               ELSE retry'.pc = "rejected" /\ retry'.thrown = error
    /\ (retry.pc = "sleeping" /\ retry' # retry) =>
          retry'.pc = "calling" /\ retry'.calls = retry.calls + 1
    /\ (retry.pc = "rejected" /\ retry' # retry) => retry'.calls <= 1

C21_ClientErrorsNotRetried == [][C21_AfterFailure]_vars

C21_Witness ==
    /\ retry.pc = "rejected" /\ retry.maxRetries = 3
    /\ retry.thrown.isApiError /\ retry.thrown.status = 404
    /\ retry.thrown.attempt = 2 /\ retry.calls = 2

\* C22: on a mounted dashboard, while any fetch is in flight the loading
\* flag (which disables the Refresh button) is true.
C22_LoadingWhileFetching ==
    (dash.mounted /\ Pending(dash) # {}) => dash.loading

\* C23: on a mounted dashboard a failed fetch leaves the interval timer of
\* the auto-refresh effect as it is and sets loading to false and the error;
\* while auto-refresh is on the timer is active whether or not a fetch has
\* failed, each firing of it starts one more fetch, and the start of a fetch
\* clears the error and sets loading.
C23_Step ==
    /\ \A i \in 1..Len(dash.fetches) :
          (dash.mounted /\ dash.fetches[i] = "pending"
              /\ Len(dash'.fetches) = Len(dash.fetches)
              /\ dash'.fetches[i] = "failed") =>
            /\ dash'.timers = dash.timers /\ dash'.interval = dash.interval
            /\ dash'.autoRefresh = dash.autoRefresh
            /\ dash'.loading = FALSE /\ dash'.error = TRUE
    /\ (dash'.mounted /\ dash'.autoRefresh /\ dash'.error) =>
          \E t \in dash'.timers : t.handle = dash'.interval
    /\ IntervalFires =>
          /\ Len(dash'.fetches) = Len(dash.fetches) + 1
          /\ dash'.fetches[Len(dash'.fetches)] = "pending"
          /\ dash'.startedBy[Len(dash'.fetches)] = "timer"
    /\ Len(dash'.fetches) > Len(dash.fetches) =>
          dash'.error = FALSE /\ dash'.loading = TRUE

C23_FailureKeepsRefreshing == [][C23_Step]_vars

\* a fetch failed, and a later firing of the timer started the next one
C23_Witness ==
    /\ dash.mounted /\ dash.autoRefresh
    /\ dash.fetches = <<"failed", "pending">>
    /\ dash.startedBy = <<"mount", "timer">>
    /\ ~dash.error /\ dash.loading

\* C26: a dashboard has at most one active interval timer; while it is
\* mounted with auto-refresh on it has exactly one, the one its last effect
\* run created, with a period of refreshInterval seconds; with auto-refresh
\* off or the page unmounted it has none.
C26_OneIntervalTimer ==
    /\ Cardinality(dash.timers) <= 1
    /\ IF dash.mounted /\ dash.autoRefresh
       THEN dash.timers = { [handle |-> dash.interval,
                             period |-> dash.refreshInterval * 1000] }
       ELSE dash.timers = {}

\* a timer fired, then another interval was selected
C26_Witness ==
    /\ dash.mounted /\ dash.autoRefresh /\ dash.refreshInterval = 10
    /\ dash.timers = { [handle |-> 1, period |-> 10000] }
    /\ Len(dash.fetches) = 2 /\ dash.startedBy[2] = "timer"

\* C29: on a mounted dashboard with no fetch in flight, what is shown is
\* the result of the fetch that was started last: its data without an error
\* when it succeeded, the error when it failed.
C29_LatestFetchShown ==
    (dash.mounted /\ dash.fetches # <<>> /\ Pending(dash) = {}) =>
        LET latest == Len(dash.fetches) IN
          IF dash.fetches[latest] = "ok"
          THEN dash.data = latest /\ dash.lastUpdate = latest /\ ~dash.error
          ELSE dash.error

C25_Step ==
    /\ userPreferences' # userPreferences =>
          /\ messages' = messages /\ sessionId' = sessionId
          /\ isLoading' = isLoading /\ streamingMessageId' = streamingMessageId
          /\ ex' = ex /\ cur' = cur /\ nEx' = nEx
    /\ (cur # NoExchange \/ cur' # NoExchange \/ ex' # ex) =>
          userPreferences' = userPreferences

C25_PreferencesIndependent == [][C25_Step]_vars

\* an exchange that completed after the preferences were changed under it
C25_Witness ==
    \E e \in Exchanges :
        /\ ex[e].pc = "streamingCleared" /\ ex[e].outcome = "ok"
        /\ ~ex[e].disturbed
        /\ ex[e].closure.userPreferences # userPreferences
        /\ ~ex[e].request.enable_profiling /\ userPreferences.enableProfiling

\* C27: once resetSession has removed the placeholder of an exchange that
\* is in flight, no step of that exchange's handler (the patch, the session
\* id reconciliation, the finally block) changes messages or sessionId.
C27_Step ==
    \A e \in Exchanges :
        (/\ InFlight(e) /\ ex[e].agentMessageId # NoId
         /\ \A i \in 1..Len(messages) : messages[i].id # ex[e].agentMessageId
         /\ cur = e \/ (cur = NoExchange /\ cur' = e)) =>
            /\ messages' = messages
            /\ sessionId' = sessionId

C27_ResetIsolatesExchange == [][C27_Step]_vars

\* C28: every message with isStreaming=true is the placeholder of a call of
\* handleSendMessage that is still running and will patch it; in particular
\* no message is streaming after the store was restored from the snapshot,
\* when no call is running.
C28_StreamingIsBeingServed ==
    \A i \in StreamingPositions :
        \E e \in Exchanges :
            InFlight(e) /\ ex[e].agentMessageId = messages[i].id

\* C30: whenever the Layout is shown and no hashchange event waits to be
\* handled, the section the App displays is the one the highlighted sidebar
\* link names, and it is the section the URL hash names ('chat' for an
\* empty hash).
C30_HighlightIsDisplayedSection ==
    (nav.layout /\ ~nav.hashchange) =>
        /\ nav.activeSection = SectionOf(nav.activeLink)
        /\ nav.activeSection = IF nav.hash = "" THEN "chat" ELSE nav.hash

====
